---- MODULE Spec2Model ----
(***************************************************************************)
(* A model of the nlab network compiler (src/models.py).                   *)
(*                                                                         *)
(* Layer.construct binds a parameter mapping to a layer's construction     *)
(* syntax for one backend.  Network.construct assembles the program text   *)
(* of a network (imports, declarations, forward routine, train/test stubs) *)
(* and hands it to Network._overwrite, which writes the script file.       *)
(*                                                                         *)
(* Program text is modelled as a sequence of statements; every name that   *)
(* an f-string of the source renders is rendered here as the same string   *)
(* ("out_" \o ToString(i), ToString(layer), ...).  Python indices are      *)
(* 0-based: instance i is element i + 1 of a TLA+ sequence.                *)
(***************************************************************************)
EXTENDS Integers, Sequences, FiniteSets, TLC

VARIABLES
    layer,       \* SpecBind: the Layer record construct is called on
    mode,        \* SpecBind: the mode argument of Layer.construct
    parameters,  \* SpecBind: the parameters argument of Layer.construct
    expr,        \* SpecBind: what Layer.construct returned or raised
    network,     \* the Network record being compiled
    artifact,    \* the script file: [exists, content]
    before,      \* the script file as it was when the last compile pass began
    outcome,     \* Spec: what the last Network.construct call did
    pc,          \* Spec / SpecBind: "idle" before the call, "done" after it
    pass         \* SpecConc: per compile pass, its position in construct/_overwrite

vars == <<layer, mode, parameters, expr, network, artifact, before, outcome, pc, pass>>

(***************************************************************************)
(* Bounds of the model.                                                    *)
(***************************************************************************)
MaxParams == 2   \* entries of a parameters mapping
MaxInst   == 2   \* instances (entries of Network.graph)
MaxEdges  == 2   \* input edges of a whole graph

(***************************************************************************)
(* Global constants of src/models.py.                                      *)
(***************************************************************************)
pytorch == "pytorch"
pennylane == "pennylane"
tensorflow == "tensorflow"

Backends == {pytorch, pennylane, tensorflow}

\* Python's None, as an f-string renders it.
None == "None"

\* imports = {pytorch: "import torch\nimport torch.nn as nn"}
imports == [b \in {pytorch} |-> "import torch\nimport torch.nn as nn"]

\* activations = {pytorch: {'relu': "nn.ReLu()"}}
activations == [b \in {pytorch} |-> [a \in {"relu"} |-> "nn.ReLu()"]]

\* str.lower() on the strings the model draws.
lower(s) ==
    CASE s = "PyTorch" -> "pytorch"
      [] s = "ReLU" -> "relu"
      [] OTHER -> s

(***************************************************************************)
(* Layer.construct                                                         *)
(***************************************************************************)
\* A faulty variant of possible_parameters: the names of every backend's schema.
possible_parameters_all_backends(self, m) ==
    UNION {{self.parameters[b][k][1] : k \in 1..Len(self.parameters[b])} :
            b \in DOMAIN self.parameters}

\* [parameter[0] for parameter in json.loads(self.parameters)[mode]]
possible_parameters(self, m) ==
    {self.parameters[m][k][1] : k \in 1..Len(self.parameters[m])}

RECURSIVE filter_parameters(_, _)
\* for parameter, value in parameters.items():
\*     if parameter in possible_parameters: layer += f"{parameter}={value},"
filter_parameters(params, possible) ==
    IF params = <<>> THEN <<>>
    ELSE (IF Head(params)[1] \in possible THEN <<Head(params)>> ELSE <<>>)
         \o filter_parameters(Tail(params), possible)

\* Layer.construct(self, parameters, mode): the construction expression
\* f"{callee}(k1=v1,k2=v2,)" as [callee, kwargs], or the exception raised.
Layer_construct(self, params, m) ==
    IF m \notin DOMAIN self.parameters
    THEN [ok |-> FALSE, err |-> "KeyError", callee |-> "", kwargs |-> <<>>]
    ELSE IF m = pytorch
    THEN [ok |-> TRUE, err |-> "", callee |-> self.pytorch,
          kwargs |-> filter_parameters(params, possible_parameters(self, m))]
    ELSE IF m = tensorflow
    THEN [ok |-> TRUE, err |-> "", callee |-> self.pennylane,
          kwargs |-> filter_parameters(params, possible_parameters(self, m))]
    ELSE [ok |-> FALSE, err |-> "ValueError", callee |-> "", kwargs |-> <<>>]

\* Layer.store(self): raise NotImplementedError.  The method is defined after
\* the field of the same name and replaces it in the class body.
Layer_store(self) == [ok |-> FALSE, err |-> "NotImplementedError", text |-> ""]

(***************************************************************************)
(* Inputs of Layer.construct.                                              *)
(***************************************************************************)
ParamNames == {"units", "bias", "seed"}

ValueOf(k) == CASE k = "units" -> "10" [] k = "bias" -> "True" [] OTHER -> "7"

\* The per-backend entry of Layer.parameters: a list of [name, kind] pairs.
Schemas ==
    { <<>>,
      << <<"units", "int">> >>,
      << <<"units", "int">>, <<"bias", "bool">> >> }

SyntaxOf(b) ==
    CASE b = pytorch -> "nn.Linear"
      [] b = pennylane -> "qml.Dense"
      [] OTHER -> "tf.keras.layers.Dense"

Layers ==
    { [name |-> "Dense", pytorch |-> pt, pennylane |-> pl, tensorflow |-> tf,
       parameters |-> sch] :
        pt \in {None, SyntaxOf(pytorch)},
        pl \in {None, SyntaxOf(pennylane)},
        tf \in {None, SyntaxOf(tensorflow)},
        sch \in UNION {[D -> Schemas] : D \in SUBSET Backends} }

RECURSIVE ParamSeqs(_, _)
\* The parameter mappings of at most n entries, in every insertion order,
\* over the keys ks (a dict has no duplicate key).
ParamSeqs(n, ks) ==
    IF n = 0 THEN {<<>>}
    ELSE {<<>>} \cup
         UNION {{<< <<k, ValueOf(k)>> >> \o rest : rest \in ParamSeqs(n - 1, ks \ {k})} :
                 k \in ks}

\* A Layer with no backend at all.
NoLayer ==
    [name |-> "Dense", pytorch |-> None, pennylane |-> None, tensorflow |-> None,
     parameters |-> [b \in {} |-> <<>>]]

NoExpr == [ok |-> FALSE, err |-> "", callee |-> "", kwargs |-> <<>>]

(***************************************************************************)
(* Program text: one record per statement an f-string of construct emits.  *)
(***************************************************************************)
Stmt(op, target, fn, args) == [op |-> op, target |-> target, fn |-> fn, args |-> args]

\* f"out_{i}", f"self.layer_{i}", f"self.layer_{i}_store"
out_(i) == "out_" \o ToString(i)
layer_(i) == "self.layer_" \o ToString(i)
layer_store_(i) == "self.layer_" \o ToString(i) \o "_store"

\* Layer.objects.get(type=layer_type).  Layer has no field named type (its
\* fields are name, parameters, pytorch, pennylane, tensorflow and id), so
\* the manager cannot resolve the keyword and raises FieldError for every
\* layer_type, whether or not a layer of that name is stored.
objects_get(layer_type) == [ok |-> FALSE, err |-> "FieldError", layer |-> NoLayer]

RECURSIVE render_kwargs(_)
\* f"{parameter}={value}," for each kept parameter
render_kwargs(kwargs) ==
    IF kwargs = <<>> THEN <<>>
    ELSE <<Head(kwargs)[1] \o "=" \o Head(kwargs)[2]>> \o render_kwargs(Tail(kwargs))

\* One pass of the declaration loop (lines 136-139) for instance i.
declare_layer(self, i) ==
    LET layer_info == self.layers[i + 1] IN
    LET got == objects_get(layer_info.type) IN
    IF ~got.ok
    THEN [ok |-> FALSE, err |-> got.err, stage |-> "lookup", code |-> <<>>]
    ELSE LET l == got.layer
             c == Layer_construct(l, layer_info.parameters, lower(self.type))
             s == Layer_store(l)
         IN  IF ~c.ok
             THEN [ok |-> FALSE, err |-> c.err, stage |-> "bind", code |-> <<>>]
             ELSE IF ~s.ok
             THEN [ok |-> FALSE, err |-> s.err, stage |-> "store", code |-> <<>>]
             ELSE [ok |-> TRUE, err |-> "", stage |-> "",
                   code |-> << Stmt("decl", layer_(i), c.callee, render_kwargs(c.kwargs)),
                               Stmt("decl", layer_store_(i), s.text, <<>>) >>]

RECURSIVE declare_from(_, _)
\* for i, layer_info in enumerate(self.layers): ... from instance i on
declare_from(self, i) ==
    IF i >= Len(self.layers)
    THEN [ok |-> TRUE, err |-> "", stage |-> "", code |-> <<>>]
    ELSE LET d == declare_layer(self, i) IN
         IF ~d.ok THEN d
         ELSE LET rest == declare_from(self, i + 1) IN
              IF ~rest.ok THEN rest
              ELSE [rest EXCEPT !.code = d.code \o rest.code]

RECURSIVE out(_, _)
\* the activation statements of one instance's edges, in edge order:
\* f"\n\t\t{layer} = {activations[type][activation.lower()]}({layer})"
out(inputs, type) ==
    IF inputs = <<>> THEN <<>>
    ELSE LET input_ == Head(inputs) IN
         (IF ~input_.external /\ input_.activation # None
          THEN << Stmt("assign", ToString(input_.layer),
                       activations[type][lower(input_.activation)],
                       <<ToString(input_.layer)>>) >>
          ELSE <<>>)
         \o out(Tail(inputs), type)

\* A faulty variant of in_: the external symbols first, then the internal references.
in_externals_first(inputs) ==
    LET ext == SelectSeq(inputs, LAMBDA e : e.external)
        int == SelectSeq(inputs, LAMBDA e : ~e.external)
    IN  [k \in 1..Len(ext) |-> "input"] \o [k \in 1..Len(int) |-> ToString(int[k].layer)]

RECURSIVE in_(_)
\* the argument list of one instance: f"input," or f"{layer}," per edge
in_(inputs) ==
    IF inputs = <<>> THEN <<>>
    ELSE (IF Head(inputs).external THEN <<"input">>
          ELSE <<ToString(Head(inputs).layer)>>)
         \o in_(Tail(inputs))

\* activations[self.type.lower()][activation.lower()] raises KeyError
activation_known(input_, type) ==
    input_.external \/ input_.activation = None
    \/ (type \in DOMAIN activations /\ lower(input_.activation) \in DOMAIN activations[type])

\* One pass of the forward loop (lines 144-152) for instance i.
forward_instance(self, i) ==
    LET inputs == self.graph[i + 1]
        type == lower(self.type)
    IN  IF \E k \in 1..Len(inputs) : ~activation_known(inputs[k], type)
        THEN [ok |-> FALSE, err |-> "KeyError", stage |-> "activation", code |-> <<>>]
        ELSE [ok |-> TRUE, err |-> "", stage |-> "",
              code |-> out(inputs, type)
                       \o << Stmt("exec", out_(i), layer_(i), in_(inputs)),
                             Stmt("store", "", layer_store_(i), <<out_(i)>>) >>]

\* A faulty variant of forward_append: the new block goes in front.
forward_prepend(forward, block) == block \o forward

\* forward += f"{out}\n\t\tout_{i} = ...\n\t\tself.layer_{i}_store(out_{i})"
forward_append(forward, block) == forward \o block

RECURSIVE forward_from(_, _, _)
\* for i, inputs in enumerate(self.graph): ... from instance i on
forward_from(self, i, forward) ==
    IF i >= Len(self.graph)
    THEN [ok |-> TRUE, err |-> "", stage |-> "", code |-> forward]
    ELSE LET f == forward_instance(self, i) IN
         IF ~f.ok THEN f
         ELSE forward_from(self, i + 1, forward_append(forward, f.code))

\* Whether the loop variable i is bound when line 154 reads it: the forward
\* loop binds it, or else the declaration loop has left it behind.
i_bound(self) == Len(self.graph) > 0 \/ Len(self.layers) > 0

\* A faulty variant of i_at_return: the number of instances, not the last index.
i_at_return_len(self) ==
    IF Len(self.graph) > 0 THEN Len(self.graph) ELSE Len(self.layers)

\* The value of i at line 154.
i_at_return(self) ==
    IF Len(self.graph) > 0 THEN Len(self.graph) - 1 ELSE Len(self.layers) - 1

\* Lines 133-163 of Network.construct: the program text, or the exception.
generate(self) ==
    LET type == lower(self.type) IN
    IF type \notin DOMAIN imports
    THEN [ok |-> FALSE, err |-> "KeyError", stage |-> "imports", code |-> <<>>]
    ELSE LET d == declare_from(self, 0) IN
         IF ~d.ok THEN d
         ELSE LET f == forward_from(self, 0, <<Stmt("def", "forward", "", <<"self", "input">>)>>) IN
              IF ~f.ok THEN f
              ELSE IF ~i_bound(self)
              THEN [ok |-> FALSE, err |-> "UnboundLocalError", stage |-> "terminal",
                    code |-> <<>>]
              ELSE [ok |-> TRUE, err |-> "", stage |-> "",
                    code |-> << Stmt("import", "", imports[type], <<>>),
                                Stmt("class", self.name, "nn.Module", <<>>),
                                Stmt("def", "__init__", "", <<"self">>),
                                Stmt("call", "", "super().__init__", <<>>) >>
                             \o d.code
                             \o f.code
                             \o << Stmt("return", "", "", <<out_(i_at_return(self))>>),
                                   Stmt("def", "train", "", <<>>),
                                   Stmt("def", "test", "", <<>>) >>]

\* The interpreter_path attribute of a Network instance.  The class defines
\* network_path only, so the attribute is there only if the instance was
\* given it; the path it names can be opened for writing or not (a missing
\* directory, a directory).
NoAttribute == "<no attribute>"
WritablePath == "networks/net.py"
MissingDirPath == "missing/net.py"
Paths == {NoAttribute, WritablePath, MissingDirPath}

\* Network names: one the file's encoding encodes, one it does not (a lone
\* surrogate, which no encoding of open() accepts).
Names == {"Net", "N\\udc80"}

\* script.write(code) encodes the text: it raises UnicodeEncodeError when a
\* name rendered into the text cannot be encoded.
encodable(code) == \A k \in 1..Len(code) : code[k].target # "N\\udc80"

\* Network._overwrite(self, code): with open(self.interpreter_path, 'w'):
\* seek(0), truncate(0), write(code), close().  open() has already emptied
\* the file when write raises.
Network_overwrite(self, code, file) ==
    IF self.interpreter_path = NoAttribute
    THEN [ok |-> FALSE, err |-> "AttributeError", stage |-> "write", file |-> file]
    ELSE IF self.interpreter_path # WritablePath
    THEN [ok |-> FALSE, err |-> "FileNotFoundError", stage |-> "write", file |-> file]
    ELSE IF ~encodable(code)
    THEN [ok |-> FALSE, err |-> "UnicodeEncodeError", stage |-> "write",
          file |-> [exists |-> TRUE, content |-> <<>>]]
    ELSE [ok |-> TRUE, err |-> "", stage |-> "",
          file |-> [exists |-> TRUE, content |-> code]]

\* Network.construct(self): generate, then self._overwrite(network).
Network_construct(self, file) ==
    LET g == generate(self) IN
    IF ~g.ok
    THEN [ok |-> FALSE, err |-> g.err, stage |-> g.stage, code |-> <<>>, file |-> file]
    ELSE LET w == Network_overwrite(self, g.code, file) IN
         [ok |-> w.ok, err |-> w.err, stage |-> w.stage, code |-> g.code, file |-> w.file]

(***************************************************************************)
(* Inputs of Network.construct.                                            *)
(***************************************************************************)
\* An input edge: None (the external input) or a (layer, activation) pair.
ExternalInput == [external |-> TRUE, layer |-> 0, activation |-> None]

InternalEdges ==
    { [external |-> FALSE, layer |-> j, activation |-> a] :
        j \in 0..(MaxInst - 1), a \in {None, "ReLU", "tanh"} }

EdgeChoices == {ExternalInput} \cup InternalEdges

RECURSIVE EdgeLists(_)
\* The edge lists of at most m edges.
EdgeLists(m) ==
    IF m = 0 THEN {<<>>}
    ELSE {<<>>} \cup {<<e>> \o l : e \in EdgeChoices, l \in EdgeLists(m - 1)}

RECURSIVE Graphs(_, _)
\* The graphs of at most n instances and at most m edges in all.
Graphs(n, m) ==
    IF n = 0 THEN {<<>>}
    ELSE {<<>>} \cup
         UNION {{<<l>> \o g : g \in Graphs(n - 1, m - Len(l))} : l \in EdgeLists(m)}

LayerInfos ==
    { [type |-> t, parameters |-> << <<"units", "10">>, <<"seed", "7">> >>] :
        t \in {"Linear", "Ghost"} }

RECURSIVE LayerSeqs(_)
\* The non-empty layer lists of at most n instances.
LayerSeqs(n) ==
    IF n = 0 THEN {}
    ELSE {<<x>> : x \in LayerInfos}
         \cup {<<x>> \o l : x \in LayerInfos, l \in LayerSeqs(n - 1)}

\* The graph that feeds each instance the one before it.
ChainGraph(n) ==
    [i \in 1..n |-> IF i = 1 THEN <<ExternalInput>>
                    ELSE <<[external |-> FALSE, layer |-> i - 2, activation |-> None]>>]

\* Network records: no layers and any graph (the forward loop runs), or
\* layers with a graph of the same length.
Networks ==
    { [name |-> nm, type |-> t, layers |-> ls, graph |-> g, interpreter_path |-> h] :
        nm \in Names, t \in {"PyTorch", tensorflow}, h \in Paths,
        ls \in {<<>>}, g \in Graphs(MaxInst, MaxEdges) }
    \cup
    { [name |-> nm, type |-> t, layers |-> ls, graph |-> ChainGraph(Len(ls)),
       interpreter_path |-> h] :
        nm \in Names, t \in {"PyTorch", tensorflow}, h \in Paths,
        ls \in LayerSeqs(MaxInst) }

\* The script file before the first compile: absent, or an earlier program.
NoFile == [exists |-> FALSE, content |-> <<>>]
OldFile == [exists |-> TRUE, content |-> <<Stmt("import", "", "import torch", <<>>)>>]

NoOutcome == [ok |-> FALSE, err |-> "", stage |-> "", code |-> <<>>]
NoNetwork ==
    [name |-> "Net", type |-> pytorch, layers |-> <<>>, graph |-> <<>>,
     interpreter_path |-> NoAttribute]
Passes == {1, 2}
NoPass == [p \in Passes |-> [pc |-> "idle", code |-> <<>>, flushed |-> FALSE]]

(***************************************************************************)
(* Spec: compile passes of one network, one after the other.               *)
(***************************************************************************)
Init ==
    /\ network \in Networks
    /\ artifact \in {NoFile, OldFile}
    /\ before = artifact
    /\ outcome = NoOutcome
    /\ pc = "idle"
    /\ layer = NoLayer /\ mode = pytorch /\ parameters = <<>> /\ expr = NoExpr
    /\ pass = NoPass

\* network.construct()
Compile ==
    LET r == Network_construct(network, artifact) IN
    /\ before' = artifact
    /\ artifact' = r.file
    /\ outcome' = [ok |-> r.ok, err |-> r.err, stage |-> r.stage, code |-> r.code]
    /\ pc' = "done"
    /\ UNCHANGED <<network, layer, mode, parameters, expr, pass>>

Next == Compile

Spec == Init /\ [][Next]_vars

(***************************************************************************)
(* SpecBind: Layer.construct on every layer, mode and parameter mapping.   *)
(***************************************************************************)
InitBind ==
    /\ layer \in Layers
    /\ mode \in Backends
    /\ parameters \in ParamSeqs(MaxParams, ParamNames)
    /\ expr = NoExpr
    /\ pc = "idle"
    /\ network = NoNetwork /\ artifact = NoFile /\ before = NoFile
    /\ outcome = NoOutcome /\ pass = NoPass

\* layer.construct(parameters, mode=mode)
Bind ==
    /\ pc = "idle"
    /\ expr' = Layer_construct(layer, parameters, mode)
    /\ pc' = "done"
    /\ UNCHANGED <<layer, mode, parameters, network, artifact, before, outcome, pass>>

NextBind == Bind

SpecBind == InitBind /\ [][NextBind]_vars

(***************************************************************************)
(* SpecConc: two compile passes of the same network, interleaved.  The     *)
(* generation (lines 133-163) touches only locals and is one step; the     *)
(* file operations of _overwrite are one step each.                        *)
(***************************************************************************)
ConcNetworks ==
    { [name |-> nm, type |-> t, layers |-> <<>>, graph |-> g, interpreter_path |-> h] :
        nm \in Names, t \in {"PyTorch", tensorflow}, h \in Paths, g \in Graphs(1, 1) }

InitConc ==
    /\ network \in ConcNetworks
    /\ artifact \in {NoFile, OldFile}
    /\ before = artifact
    /\ pass = NoPass
    /\ outcome = NoOutcome /\ pc = "idle"
    /\ layer = NoLayer /\ mode = pytorch /\ parameters = <<>> /\ expr = NoExpr

\* script.write / the flush at close: the buffered text goes to the file at
\* the handle's offset, which is 0 (the handle was opened and truncated).
overlay(code, content) ==
    code \o SubSeq(content, Len(code) + 1, Len(content))

\* lines 133-163
Generate(p) ==
    /\ pass[p].pc = "idle"
    /\ LET g == generate(network) IN
       pass' = [pass EXCEPT ![p] = [pc |-> IF g.ok THEN "generated" ELSE "failed",
                                    code |-> g.code, flushed |-> FALSE]]
    /\ UNCHANGED <<network, artifact, before, outcome, pc, layer, mode, parameters, expr>>

\* with open(self.interpreter_path, 'w') as script:  (AttributeError without
\* the attribute, FileNotFoundError for a path that cannot be opened)
Open(p) ==
    /\ pass[p].pc = "generated"
    /\ IF network.interpreter_path = WritablePath
       THEN /\ artifact' = [exists |-> TRUE, content |-> <<>>]
            /\ pass' = [pass EXCEPT ![p].pc = "open"]
       ELSE /\ artifact' = artifact
            /\ pass' = [pass EXCEPT ![p].pc = "failed"]
    /\ UNCHANGED <<network, before, outcome, pc, layer, mode, parameters, expr>>

\* script.seek(0); script.truncate(0)
Truncate(p) ==
    /\ pass[p].pc = "open"
    /\ artifact' = [exists |-> TRUE, content |-> <<>>]
    /\ pass' = [pass EXCEPT ![p].pc = "truncated"]
    /\ UNCHANGED <<network, before, outcome, pc, layer, mode, parameters, expr>>

\* script.write(code): the text is encoded (UnicodeEncodeError ends the pass,
\* the with-block closing the emptied file) and buffered; it reaches the file
\* now or at close.
Write(p) ==
    /\ pass[p].pc = "truncated"
    /\ IF encodable(pass[p].code)
       THEN \E flush \in BOOLEAN :
               /\ artifact' = IF flush
                              THEN [exists |-> TRUE,
                                    content |-> overlay(pass[p].code, artifact.content)]
                              ELSE artifact
               /\ pass' = [pass EXCEPT ![p].pc = "written", ![p].flushed = flush]
       ELSE /\ artifact' = artifact
            /\ pass' = [pass EXCEPT ![p].pc = "failed"]
    /\ UNCHANGED <<network, before, outcome, pc, layer, mode, parameters, expr>>

\* script.close()
Close(p) ==
    /\ pass[p].pc = "written"
    /\ artifact' = IF pass[p].flushed THEN artifact
                   ELSE [exists |-> TRUE, content |-> overlay(pass[p].code, artifact.content)]
    /\ pass' = [pass EXCEPT ![p].pc = "closed", ![p].flushed = TRUE]
    /\ UNCHANGED <<network, before, outcome, pc, layer, mode, parameters, expr>>

NextConc ==
    \E p \in Passes : Generate(p) \/ Open(p) \/ Truncate(p) \/ Write(p) \/ Close(p)

SpecConc == InitConc /\ [][NextConc]_vars

(***************************************************************************)
(* Vocabulary of the properties.                                           *)
(***************************************************************************)
\* A compile pass has run and its generation completed: outcome.code is the
\* program text handed to _overwrite.
Emitted == pc = "done" /\ outcome.code # <<>>

\* Every internal edge of instance i names a source j < i.
ValidGraph(g) ==
    \A i \in 1..Len(g) : \A k \in 1..Len(g[i]) :
        ~g[i][k].external => g[i][k].layer < i - 1

PositionsOf(code, op) == {k \in 1..Len(code) : code[k].op = op}

\* Where the execution statement binding out_i stands in the text.
ExecIndex(code, i) == {k \in PositionsOf(code, "exec") : code[k].target = out_(i)}
ExecPos(code, i) == CHOOSE k \in ExecIndex(code, i) : TRUE

\* The layer supports the backend: a schema entry and a construction syntax.
ConstructionSyntax(l, b) ==
    CASE b = pytorch -> l.pytorch
      [] b = pennylane -> l.pennylane
      [] OTHER -> l.tensorflow
Supports(l, b) == b \in DOMAIN l.parameters /\ ConstructionSyntax(l, b) # None

KeysOf(kvs) == {kvs[k][1] : k \in 1..Len(kvs)}

(***************************************************************************)
(* Properties.                                                             *)
(***************************************************************************)

\* C1 (Atomicity): a compile pass that fails, at whatever stage, leaves the
\* script file exactly as it was when the pass began; the file is touched
\* only by a pass whose generation and write both succeeded.
C1_Atomicity ==
    pc = "done" =>
        /\ (~outcome.ok => artifact = before)
        /\ (artifact # before => outcome.ok /\ outcome.code # <<>>)

\* C2 (Whitelist filtering): the keys of the returned construction
\* expression are exactly the keys of params that the schema of the backend
\* names, each once and with the value params gives it.
C2_WhitelistFiltering ==
    (pc = "done" /\ expr.ok) =>
        /\ KeysOf(expr.kwargs) =
              KeysOf(parameters) \cap KeysOf(layer.parameters[mode])
        /\ Cardinality(KeysOf(expr.kwargs)) = Len(expr.kwargs)
        /\ \A k \in 1..Len(expr.kwargs) :
              \E j \in 1..Len(parameters) : parameters[j] = expr.kwargs[k]

\* An expression was returned that keeps one given key and drops another,
\* which a different backend's schema names.
C2_Witness ==
    /\ pc = "done" /\ expr.ok
    /\ "units" \in KeysOf(expr.kwargs)
    /\ "bias" \in KeysOf(parameters) \ KeysOf(expr.kwargs)
    /\ \E b \in DOMAIN layer.parameters : "bias" \in KeysOf(layer.parameters[b])

\* C3 (Order fidelity): for a valid graph the text holds exactly one
\* execution statement per instance, in declaration order, so the statement
\* of instance i stands after that of every source it references.
C3_OrderFidelity ==
    (Emitted /\ ValidGraph(network.graph)) =>
        LET code == outcome.code
            n == Len(network.graph)
        IN  /\ Cardinality(PositionsOf(code, "exec")) = n
            /\ \A i \in 0..(n - 1) : Cardinality(ExecIndex(code, i)) = 1
            /\ \A i \in 0..(n - 1) : \A k \in 0..(n - 1) :
                  i < k => ExecPos(code, i) < ExecPos(code, k)
            /\ \A i \in 0..(n - 1) : \A e \in 1..Len(network.graph[i + 1]) :
                  ~network.graph[i + 1][e].external =>
                      ExecPos(code, network.graph[i + 1][e].layer) < ExecPos(code, i)

\* A valid graph of two instances, the second fed by the first, was emitted.
C3_Witness ==
    /\ Emitted /\ ValidGraph(network.graph)
    /\ Len(network.graph) = 2
    /\ \E e \in 1..Len(network.graph[2]) :
          ~network.graph[2][e].external /\ network.graph[2][e].layer = 0

\* C4 (Single-sink output): for a non-empty graph the text holds exactly one
\* return statement, it returns the output name of the last instance, and
\* it stands after every execution statement.
C4_SingleSink ==
    (Emitted /\ Len(network.graph) > 0) =>
        LET code == outcome.code
            n == Len(network.graph)
        IN  /\ Cardinality(PositionsOf(code, "return")) = 1
            /\ \A r \in PositionsOf(code, "return") :
                  /\ code[r].args = <<out_(n - 1)>>
                  /\ ExecIndex(code, n - 1) # {}
                  /\ \A k \in PositionsOf(code, "exec") : k < r

\* A graph of two instances was emitted and written.
C4_Witness ==
    Emitted /\ outcome.ok /\ Len(network.graph) = 2

\* C5 (Per-network write exclusion): at most one compile pass of the network
\* is between the open and the close of _overwrite at any time.
C5_WriteExclusion ==
    Cardinality({p \in Passes : pass[p].pc \in {"open", "truncated", "written"}}) <= 1

\* C6 (Empty graph rejection): compiling a network with no instance fails
\* with EmptyGraph, before the return statement is reached, and writes nothing.
C6_EmptyGraphRejected ==
    (pc = "done" /\ network.layers = <<>> /\ network.graph = <<>>
        /\ lower(network.type) \in DOMAIN imports) =>
        /\ ~outcome.ok
        /\ outcome.err = "EmptyGraph"
        /\ outcome.stage # "terminal"
        /\ artifact = before

\* C7 (Unresolved reference rejection): a graph with an edge that names a
\* source at or after its own position is refused with UnresolvedReference
\* whenever the pass meets no other error, and no text is produced for it.
C7_UnresolvedRejected ==
    (pc = "done" /\ ~ValidGraph(network.graph)
        /\ outcome.stage \notin {"imports", "lookup", "bind", "store", "activation", "write"}) =>
        /\ ~outcome.ok
        /\ outcome.err = "UnresolvedReference"
        /\ outcome.code = <<>>

\* C8 (Backend binding): construct returns an expression exactly when the
\* layer supports the backend, and the expression then calls the layer's
\* construction syntax for that backend.
C8_BackendBinding ==
    pc = "done" =>
        /\ expr.ok <=> Supports(layer, mode)
        /\ expr.ok => expr.callee = ConstructionSyntax(layer, mode)

\* C9 (Activation placement): for a valid graph, every internal edge (j, a)
\* of instance i with an activation has an activation statement that rebinds
\* out_j to a(out_j), after the execution statement of j and directly before
\* that of i (only activation statements in between), and the execution
\* statement of i passes out_j; there are no other activation statements.
C9_ActivationPlacement ==
    (Emitted /\ outcome.ok /\ ValidGraph(network.graph)) =>
        LET code == outcome.code
            g == network.graph
            edges == UNION {{<<i, e>> : e \in 1..Len(g[i + 1])} : i \in 0..(Len(g) - 1)}
            activated == {ie \in edges :
                            /\ ~g[ie[1] + 1][ie[2]].external
                            /\ g[ie[1] + 1][ie[2]].activation # None}
        IN  /\ Cardinality(PositionsOf(code, "assign")) = Cardinality(activated)
            /\ \A ie \in activated :
                  LET i == ie[1]
                      j == g[i + 1][ie[2]].layer
                  IN  /\ \E p \in PositionsOf(code, "assign") :
                            /\ code[p].target = out_(j)
                            /\ code[p].args = <<out_(j)>>
                            /\ ExecPos(code, j) < p /\ p < ExecPos(code, i)
                            /\ \A q \in (p + 1)..(ExecPos(code, i) - 1) :
                                  code[q].op = "assign"
                      /\ \E a \in 1..Len(code[ExecPos(code, i)].args) :
                            code[ExecPos(code, i)].args[a] = out_(j)

\* C10 as stated (Argument order): the argument list of every execution
\* statement has the external-input symbols first and the internal
\* references after them, each group in edge order.
C10_ExternalsFirst ==
    Emitted =>
        \A i \in 0..(Len(network.graph) - 1) :
            LET inputs == network.graph[i + 1]
                ext == SelectSeq(inputs, LAMBDA e : e.external)
                int == SelectSeq(inputs, LAMBDA e : ~e.external)
            IN  outcome.code[ExecPos(outcome.code, i)].args =
                    [k \in 1..Len(ext) |-> "input"]
                    \o [k \in 1..Len(int) |-> ToString(int[k].layer)]

\* C10 as amended: the argument list of every execution statement has one
\* argument per edge, in edge order, external and internal edges
\* interleaved as the edge list has them.
C10_EdgeOrder ==
    Emitted =>
        \A i \in 0..(Len(network.graph) - 1) :
            LET inputs == network.graph[i + 1]
                args == outcome.code[ExecPos(outcome.code, i)].args
            IN  /\ ExecIndex(outcome.code, i) # {}
                /\ Len(args) = Len(inputs)
                /\ \A k \in 1..Len(inputs) :
                      args[k] = IF inputs[k].external THEN "input"
                                ELSE ToString(inputs[k].layer)

\* An instance whose edge list has an internal edge before an external one
\* was emitted.
C10_Witness ==
    /\ Emitted
    /\ \E i \in 1..Len(network.graph) :
          /\ Len(network.graph[i]) = 2
          /\ ~network.graph[i][1].external
          /\ network.graph[i][2].external

====
